---- MODULE Spec2Model ----
(***************************************************************************)
(* react-storex: the store (state, cache, cache timestamps, API handlers,  *)
(* listeners), its fetchData coordinator and the retryFetch wrapper.       *)
(*                                                                         *)
(* JavaScript runs the synchronous part of every function to completion,   *)
(* so one action is one synchronous run: a call up to its first await, or  *)
(* the continuation that a settled promise or a fired timer resumes.       *)
(***************************************************************************)
EXTENDS Integers, Sequences, FiniteSets, TLC

----------------------------------------------------------------------------
(* Bounds of the model *)

\* external operations (store API calls) in one behaviour
MaxOps == 3
\* clock ticks in one behaviour
MaxTicks == 3
\* largest `retries` argument given to a standalone retryFetch
MaxRetries == 4

(* Program constants *)

\* retryFetch: retries = 3
DefaultRetries == 3
\* retryFetch: delay = 1000
DefaultDelay == 1000

----------------------------------------------------------------------------
(* Finite domains the inputs are drawn from *)

Keys == {"a", "b"}
Methods == {"GET", "POST", "PUT", "DELETE"}
\* the slots of the async calls
Calls == {1, 2}
\* the slot of a caller that awaits each call before it makes the next
Sequential == {1}
Subscribers == {"s1", "s2"}
\* the callbacks that throw when they are invoked
Throwers == {"bad"}
\* every callback a store may be given: the subscribers, a callback that throws
\* and the hook's updateState
Callbacks == Subscribers \cup Throwers \cup {"updateState"}
FetchFunctions == {"f1", "f2"}
\* the fetch functions registered where their identity plays no part
OneFunction == {"f1"}
\* the callbacks subscribed where one subscriber is enough
OneSubscriber == {"s1"}
\* one tick of the clock, in milliseconds: the first backoff wait of fetchData
TickMs == 2 * DefaultDelay
\* cacheDuration arguments given to registerAPI
Durations == {0, TickMs}
\* the cacheDuration registered where one positive lifetime is enough
OneDuration == {TickMs}
\* delay arguments given to a standalone retryFetch
Delays == {1, DefaultDelay}
StartClock == 1
MaxClock == StartClock + MaxTicks * TickMs
PAYLOAD == "payload"
URLPATH == "/path"

(* JavaScript values: null, undefined and arrays of records *)

Item(i, n) == [id |-> i, name |-> n]
NULL == [tag |-> "null", items |-> <<>>]
UNDEFINED == [tag |-> "undefined", items |-> <<>>]
Arr(s) == [tag |-> "array", items |-> s]
ListA == Arr(<<Item(5, "A"), Item(7, "B")>>)
ListB == Arr(<<Item(7, "B")>>)
\* what a fetch function may resolve with
Results == {NULL, UNDEFINED, Arr(<<>>), ListA, ListB}
\* values given to setState
PartialVals == {ListB}

\* the error retryFetch throws after its loop
UnexpectedError == -1

(* useStore: ids, as numbers or as strings, and what the hook is given *)

\* a truthy value that is not an array
Obj == [tag |-> "object", items |-> <<Item(5, "A")>>]
Num(n) == [type |-> "number", num |-> n, str |-> ""]
Str(t) == [type |-> "string", num |-> 0, str |-> t]
\* itemId = null
NoId == [type |-> "null", num |-> 0, str |-> ""]
\* String(id)
String(id) ==
    CASE id.type = "number" -> ToString(id.num)
      [] id.type = "string" -> id.str
      [] OTHER -> "null"
\* !id
Falsy(id) ==
    \/ id.type = "null"
    \/ id.type = "number" /\ id.num = 0
    \/ id.type = "string" /\ id.str = ""
\* the key the hook is mounted with
HookKey == "a"
\* the methods the hook is mounted with
HookMethods == {"GET", "POST"}
\* method = "GET", keepCache = true, itemId = null
DefaultProps == [method |-> "GET", keepCache |-> TRUE, itemId |-> NoId]
\* ids given to deleteItem and editItem
TargetIds == {Num(5), Str("5"), Num(9), Num(0)}
\* updatedFields given to editItem
UpdatedFields == {[name |-> "X"]}
\* values given to setState beside a mounted hook
HookVals == {ListA, NULL, Obj}
\* what a fetch function resolves with beside a mounted hook
HookResults == {ListA, ListB, NULL}
\* the TypeScript hook and its JavaScript copy
Builds == {"ts", "js"}
\* no hook function awaits the call
AwaitNone == [fn |-> "none", previousState |-> UNDEFINED]

(* History: the operation a step belongs to *)

NoFields == [x \in {} |-> ""]
NoRet == [x \in {} |-> ""]
\* fresh: the keys whose cache entry was fresh when a clearCache was called;
\* handler, old: the handler a registerAPI was given and the cacheDuration it
\* replaced (-1 where the key had no handler); callback: the callback a
\* subscribe or an unsubscribe function is about; partial: what setState was given
Op(name, key) ==
    [name |-> name, key |-> key, id |-> NoId, fields |-> NoFields, ret |-> NoRet,
     fresh |-> {}, handler |-> NoRet, old |-> -1, callback |-> "",
     partial |-> NoRet]

----------------------------------------------------------------------------
VARIABLES
    clock,            \* Date.now()
    state,            \* store.state, undefined where a key is absent
    cache,            \* store.cache (Map)
    cacheExpiration,  \* store.cacheExpiration (Map)
    apiHandlers,      \* store.apiHandlers
    listeners,        \* store.listeners (Set, in insertion order)
    calls,            \* the promises of the async calls, pending or settled
    notified,         \* the broadcasts of the latest step, each the listeners invoked
    populatedAt,      \* history: call time of the GET whose result is the cache entry
    ops,              \* external operations so far
    budget,           \* external operations a behaviour may take
    lastOp,           \* history: the operation the latest step belongs to
    handles,          \* history: per callback, the unsubscribe functions not yet called
    props,            \* useStore: the parameters of the mounted hook
    hookState,        \* useStore: const [state, setState]
    isLoading,        \* useStore: const [isLoading, setIsLoading]
    isError,          \* useStore: const [isError, setIsError]
    awaiting          \* useStore: the hook function that awaits each call

storeVars == <<state, cache, cacheExpiration, apiHandlers, listeners>>
hookVars == <<props, hookState, isLoading, isError, awaiting>>
vars == <<clock, state, cache, cacheExpiration, apiHandlers, listeners, calls,
          notified, populatedAt, ops, budget, lastOp, handles, props, hookState,
          isLoading, isError, awaiting>>

----------------------------------------------------------------------------
(* Map and object helpers *)

EmptyMap == [x \in {} |-> NULL]
MapHas(m, k) == k \in DOMAIN m
MapSet(m, k, v) == [x \in (DOMAIN m) \cup {k} |-> IF x = k THEN v ELSE m[x]]
MapDelete(m, k) == [x \in (DOMAIN m) \ {k} |-> m[x]]

\* if (data)
Truthy(v) == v.tag \notin {"null", "undefined"}

RECURSIVE Pow2(_)
Pow2(n) == IF n <= 0 THEN 1 ELSE 2 * Pow2(n - 1)

Max(a, b) == IF a >= b THEN a ELSE b

MergeStateReplacing(old, partial) ==
    [k \in Keys |-> IF k \in DOMAIN partial THEN partial[k] ELSE UNDEFINED]
\* { ...this.state, ...newState }
MergeState(old, partial) ==
    [k \in Keys |-> IF k \in DOMAIN partial THEN partial[k] ELSE old[k]]

----------------------------------------------------------------------------
(* An async call *)

IdleCall ==
    [pc |-> "idle", id |-> 0, kind |-> "none", key |-> "a", method |-> "GET",
     keepCache |-> TRUE, now |-> 0, fetchFunction |-> "f1", arg |-> "",
     retries |-> 0, delay |-> 0, attempts |-> 0, invoked |-> 0,
     waits |-> <<>>, wakeAt |-> 0, outcome |-> "none", ret |-> NULL, err |-> 0]

InFlight(c) == calls[c].pc \in {"await", "sleep"}
\* the slot a new call takes: the lowest one with no call in flight
FreeSlot(c) == /\ ~InFlight(c)
               /\ \A d \in Calls : d < c => InFlight(d)

\* the call in slot c continues as f
Continue(c, f) == calls' = [calls EXCEPT ![c] = f]

----------------------------------------------------------------------------
(* retryFetch *)

BackoffDelayNext(delay, attempts) == delay * Pow2(attempts + 1)
\* delay * Math.pow(2, attempts)
BackoffDelay(delay, attempts) == delay * Pow2(attempts)

\* while (attempts < retries) { try { return await fetchFunction() ...
\* and, past the loop, throw new Error("Unexpected error in retryFetch")
RetryLoop(f) ==
    IF f.attempts < f.retries
    THEN [f EXCEPT !.pc = "await", !.invoked = @ + 1, !.wakeAt = 0]
    ELSE [f EXCEPT !.pc = "done", !.outcome = "threw", !.err = UnexpectedError,
                   !.wakeAt = 0]

\* let attempts = 0, then the loop
retryFetch(f, retries, delay) ==
    RetryLoop([f EXCEPT !.retries = retries, !.delay = delay, !.attempts = 0,
                        !.invoked = 0, !.waits = <<>>])

\* return await fetchFunction(), the promise fulfilled with v
RetryReturn(f, v) == [f EXCEPT !.pc = "done", !.outcome = "returned", !.ret = v]

RetryCatchEarly(f, now) ==
    LET a == f.attempts + 1 IN
    IF a >= f.retries - 1
    THEN [f EXCEPT !.attempts = a, !.pc = "done", !.outcome = "threw",
                   !.err = f.invoked]
    ELSE [f EXCEPT !.attempts = a, !.pc = "sleep",
                   !.wakeAt = now + BackoffDelay(f.delay, a),
                   !.waits = Append(@, BackoffDelay(f.delay, a))]
\* catch (error) { attempts++; if (attempts === retries) throw error;
\*                 await new Promise(setTimeout(.., delay * 2^attempts)) }
\* the error of the n-th invocation is written n
RetryCatch(f, now) ==
    LET a == f.attempts + 1 IN
    IF a = f.retries
    THEN [f EXCEPT !.attempts = a, !.pc = "done", !.outcome = "threw",
                   !.err = f.invoked]
    ELSE [f EXCEPT !.attempts = a, !.pc = "sleep",
                   !.wakeAt = now + BackoffDelay(f.delay, a),
                   !.waits = Append(@, BackoffDelay(f.delay, a))]

----------------------------------------------------------------------------
(* useStore: reading the store *)

IsArray(v) == v.tag = "array"

\* data.find((item) => String(item[idKey]) === String(itemId)) || null
Find(data, itemId) ==
    LET hits == IF IsArray(data)
                THEN {i \in 1..Len(data.items) :
                         ToString(data.items[i].id) = String(itemId)}
                ELSE {}
    IN  IF hits = {}
        THEN NULL
        ELSE [tag |-> "object",
              items |-> <<data.items[CHOOSE i \in hits : \A j \in hits : i <= j]>>]

\* itemId ? data?.find(..) || null : data
Select(data, itemId) == IF Falsy(itemId) THEN data ELSE Find(data, itemId)

\* updateState(newState), the callback the hook subscribes
updateState(newState) == Select(newState[HookKey], props.itemId)

HookSubscribed == \E i \in 1..Len(listeners) : listeners[i] = "updateState"

\* a step of the store beside the hook: a broadcast runs updateState if it is
\* among the listeners, and nothing else of the hook changes
HookListens ==
    /\ hookState' = IF /\ notified' # <<>>
                       /\ \E i \in 1..Len(notified'[1]) :
                             notified'[1][i] = "updateState"
                    THEN updateState(state')
                    ELSE hookState
    /\ UNCHANGED <<props, isLoading, isError, awaiting, budget>>

\* an unsubscribe function is one that subscribe returned and no one has called
Unsubscribers(callback) == handles[callback]

----------------------------------------------------------------------------
(* Store *)

InitWith(b) ==
    /\ budget = b
    /\ clock = StartClock
    /\ state = [k \in Keys |-> UNDEFINED]
    /\ cache = EmptyMap
    /\ cacheExpiration = EmptyMap
    /\ apiHandlers = EmptyMap
    /\ listeners = <<>>
    /\ calls = [c \in Calls |-> IdleCall]
    /\ notified = <<>>
    /\ populatedAt = [k \in Keys |-> -1]
    /\ ops = 0
    /\ lastOp = Op("constructor", "")
    /\ handles = [s \in Callbacks |-> 0]
    /\ props = DefaultProps
    /\ hookState = UNDEFINED
    /\ isLoading = FALSE
    /\ isError = NULL
    /\ awaiting = [c \in Calls |-> AwaitNone]

\* the store as its module constructs it: new Store({})
Init == InitWith(MaxOps)

\* a callback throws during the broadcast: forEach stops and the error leaves
\* notifyListeners and setState
BroadcastThrows == \E i \in 1..Len(listeners) : listeners[i] \in Throwers

\* the callbacks forEach invokes: the listeners up to the first that throws
Invoked ==
    IF BroadcastThrows
    THEN SubSeq(listeners, 1,
                CHOOSE i \in 1..Len(listeners) :
                    /\ listeners[i] \in Throwers
                    /\ \A j \in 1..(i - 1) : listeners[j] \notin Throwers)
    ELSE listeners

\* notifyListeners(): one broadcast, to the listeners in insertion order
notifyListeners == <<Invoked>>

\* this.apiHandlers[key]?.cacheDuration || 0
Lifetime(key) ==
    IF MapHas(apiHandlers, key) THEN apiHandlers[key].cacheDuration ELSE 0

IsFreshStrict(key, now) ==
    /\ MapHas(cache, key)
    /\ MapHas(cacheExpiration, key)
    /\ now - cacheExpiration[key] < Lifetime(key)
\* this.cache.has(key) && cacheExpirationTime !== undefined &&
\* now - cacheExpirationTime <= lifetime
IsFresh(key, now) ==
    /\ MapHas(cache, key)
    /\ MapHas(cacheExpiration, key)
    /\ now - cacheExpiration[key] <= Lifetime(key)

\* history: the keys a GET would now be served from the cache
FreshKeys == {k \in Keys : IsFresh(k, clock)}

\* Date.now() advances
Tick ==
    /\ clock + TickMs <= MaxClock
    /\ clock' = clock + TickMs
    /\ notified' = <<>>
    /\ UNCHANGED <<storeVars, calls, populatedAt, ops, lastOp>>
    /\ UNCHANGED handles
    /\ HookListens

\* setState(newState): merge, then notifyListeners(), whose error, when a
\* callback throws, goes to the caller after the merge
setState(newState) ==
    /\ ops < budget
    /\ ops' = ops + 1
    /\ state' = MergeState(state, newState)
    /\ notified' = notifyListeners
    /\ lastOp' = [Op("setState", "") EXCEPT !.partial = newState]
    /\ UNCHANGED <<clock, cache, cacheExpiration, apiHandlers, listeners, calls,
                   populatedAt>>
    /\ UNCHANGED handles
    /\ HookListens

clearCacheKeyClearsAll(key) ==
    /\ ops < budget
    /\ ops' = ops + 1
    /\ cache' = EmptyMap
    /\ cacheExpiration' = EmptyMap
    /\ populatedAt' = [k \in Keys |-> -1]
    /\ notified' = <<>>
    /\ lastOp' = [Op("clearCache", key) EXCEPT !.fresh = FreshKeys]
    /\ UNCHANGED <<clock, state, apiHandlers, listeners, calls>>
    /\ UNCHANGED handles
    /\ HookListens
clearCacheKeyValueOnly(key) ==
    /\ ops < budget
    /\ ops' = ops + 1
    /\ cache' = MapDelete(cache, key)
    /\ populatedAt' = [populatedAt EXCEPT ![key] = -1]
    /\ notified' = <<>>
    /\ lastOp' = [Op("clearCache", key) EXCEPT !.fresh = FreshKeys]
    /\ UNCHANGED <<clock, state, apiHandlers, listeners, calls, cacheExpiration>>
    /\ UNCHANGED handles
    /\ HookListens
\* clearCache(key) with a key
clearCacheKey(key) ==
    /\ ops < budget
    /\ ops' = ops + 1
    /\ cache' = MapDelete(cache, key)
    /\ cacheExpiration' = MapDelete(cacheExpiration, key)
    /\ populatedAt' = [populatedAt EXCEPT ![key] = -1]
    /\ notified' = <<>>
    /\ lastOp' = [Op("clearCache", key) EXCEPT !.fresh = FreshKeys]
    /\ UNCHANGED <<clock, state, apiHandlers, listeners, calls>>
    /\ UNCHANGED handles
    /\ HookListens

clearCacheAllValuesOnly ==
    /\ ops < budget
    /\ ops' = ops + 1
    /\ cache' = EmptyMap
    /\ populatedAt' = [k \in Keys |-> -1]
    /\ notified' = <<>>
    /\ lastOp' = [Op("clearCache", "") EXCEPT !.fresh = FreshKeys]
    /\ UNCHANGED <<clock, state, apiHandlers, listeners, calls, cacheExpiration>>
    /\ UNCHANGED handles
    /\ HookListens
\* clearCache() without a key
clearCacheAll ==
    /\ ops < budget
    /\ ops' = ops + 1
    /\ cache' = EmptyMap
    /\ cacheExpiration' = EmptyMap
    /\ populatedAt' = [k \in Keys |-> -1]
    /\ notified' = <<>>
    /\ lastOp' = [Op("clearCache", "") EXCEPT !.fresh = FreshKeys]
    /\ UNCHANGED <<clock, state, apiHandlers, listeners, calls>>
    /\ UNCHANGED handles
    /\ HookListens

subscribeAppending(s) ==
    /\ ops < budget
    /\ ops' = ops + 1
    /\ listeners' = Append(listeners, s)
    /\ handles' = [handles EXCEPT ![s] = @ + 1]
    /\ notified' = <<>>
    /\ lastOp' = [Op("subscribe", "") EXCEPT !.callback = s]
    /\ UNCHANGED <<clock, state, cache, cacheExpiration, apiHandlers, calls,
                   populatedAt>>
    /\ HookListens
\* subscribe(callback): Set.add keeps the first insertion
subscribe(s) ==
    /\ ops < budget
    /\ ops' = ops + 1
    /\ listeners' = IF \E i \in 1..Len(listeners) : listeners[i] = s
                    THEN listeners
                    ELSE Append(listeners, s)
    /\ handles' = [handles EXCEPT ![s] = @ + 1]
    /\ notified' = <<>>
    /\ lastOp' = [Op("subscribe", "") EXCEPT !.callback = s]
    /\ UNCHANGED <<clock, state, cache, cacheExpiration, apiHandlers, calls,
                   populatedAt>>
    /\ HookListens

\* the function subscribe returned: listeners.delete(callback)
unsubscribe(s) ==
    /\ ops < budget
    /\ Unsubscribers(s) > 0
    /\ ops' = ops + 1
    /\ listeners' = SelectSeq(listeners, LAMBDA x : x # s)
    /\ handles' = [handles EXCEPT ![s] = @ - 1]
    /\ notified' = <<>>
    /\ lastOp' = [Op("unsubscribe", "") EXCEPT !.callback = s]
    /\ UNCHANGED <<clock, state, cache, cacheExpiration, apiHandlers, calls,
                   populatedAt>>
    /\ HookListens

registerAPIKeepingDuration(key, fetchFunction, cacheDuration) ==
    /\ ops < budget
    /\ ops' = ops + 1
    /\ apiHandlers' = MapSet(apiHandlers, key,
                             [fetchFunction |-> fetchFunction,
                              cacheDuration |-> IF MapHas(apiHandlers, key)
                                                THEN apiHandlers[key].cacheDuration
                                                ELSE cacheDuration])
    /\ notified' = <<>>
    /\ lastOp' = [Op("registerAPI", key) EXCEPT
                    !.handler = [fetchFunction |-> fetchFunction,
                                 cacheDuration |-> cacheDuration],
                    !.old = Lifetime(key) - (IF MapHas(apiHandlers, key) THEN 0 ELSE 1)]
    /\ UNCHANGED <<clock, state, cache, cacheExpiration, listeners, calls,
                   populatedAt>>
    /\ UNCHANGED handles
    /\ HookListens
\* registerAPI(key, fetchFunction, cacheDuration) with a function
registerAPI(key, fetchFunction, cacheDuration) ==
    /\ ops < budget
    /\ ops' = ops + 1
    /\ apiHandlers' = MapSet(apiHandlers, key,
                             [fetchFunction |-> fetchFunction,
                              cacheDuration |-> cacheDuration])
    /\ notified' = <<>>
    /\ lastOp' = [Op("registerAPI", key) EXCEPT
                    !.handler = [fetchFunction |-> fetchFunction,
                                 cacheDuration |-> cacheDuration],
                    !.old = Lifetime(key) - (IF MapHas(apiHandlers, key) THEN 0 ELSE 1)]
    /\ UNCHANGED <<clock, state, cache, cacheExpiration, listeners, calls,
                   populatedAt>>
    /\ UNCHANGED handles
    /\ HookListens

----------------------------------------------------------------------------
(* fetchData *)

\* payload for POST, PUT and DELETE, urlPath otherwise
HandlerArg(method, payload, urlPath) ==
    IF method \in {"POST", "PUT", "DELETE"} THEN payload ELSE urlPath

\* if (keepCache) this.cache.set(key, data)
CacheAfterFetch(f, data) ==
    IF f.keepCache THEN MapSet(cache, f.key, data) ELSE cache

ExpirationRestamped(f) ==
    IF f.keepCache \/ MapHas(cacheExpiration, f.key)
    THEN MapSet(cacheExpiration, f.key, f.now)
    ELSE cacheExpiration
\* if (keepCache) this.cacheExpiration.set(key, now)
ExpirationAfterFetch(f) ==
    IF f.keepCache THEN MapSet(cacheExpiration, f.key, f.now) ELSE cacheExpiration

StateAfterFetchByStart(f, data) ==
    IF \E d \in Calls : /\ calls[d].kind = "fetch"
                        /\ calls[d].outcome = "stored"
                        /\ calls[d].key = f.key
                        /\ calls[d].id > f.id
    THEN state
    ELSE MergeState(state, [k \in {f.key} |-> data])
\* this.setState({ [key]: data }): the new state
StateAfterFetch(f, data) == MergeState(state, [k \in {f.key} |-> data])

StoresAlways(data) == TRUE
\* whether fetchData stores the data: if (data) { ... }
Stores(data) == Truthy(data)

NotifiedOnlyWhenCaching(f) == IF f.keepCache THEN notifyListeners ELSE <<>>
\* the broadcast of this.setState({ [key]: data })
NotifiedByFetch(f) == notifyListeners

\* the value fetchData's catch block returns
CatchValue == NULL

\* the call once the data is stored: return data or, when a callback threw
\* inside this.setState, catch (error) { return null }
Stored(f) ==
    IF BroadcastThrows
    THEN [f EXCEPT !.outcome = "notifyThrew", !.ret = CatchValue]
    ELSE [f EXCEPT !.outcome = "stored"]

\* fetchData after retryFetch returned data
FetchReturned(c, f) ==
    IF Stores(f.ret)
    THEN /\ cache' = CacheAfterFetch(f, f.ret)
         /\ cacheExpiration' = ExpirationAfterFetch(f)
         /\ state' = StateAfterFetch(f, f.ret)
         /\ notified' = NotifiedByFetch(f)
         /\ populatedAt' = IF f.keepCache
                           THEN [populatedAt EXCEPT ![f.key] =
                                    IF f.method = "GET" THEN f.now ELSE -1]
                           ELSE populatedAt
         /\ Continue(c, Stored(f))
         /\ UNCHANGED <<apiHandlers, listeners>>
    ELSE /\ Continue(c, [f EXCEPT !.outcome = "skipped"])
         /\ notified' = <<>>
         /\ UNCHANGED <<storeVars, populatedAt>>

FetchCaughtClears(c, f) ==
    /\ Continue(c, [f EXCEPT !.outcome = "failed", !.ret = CatchValue])
    /\ state' = [state EXCEPT ![f.key] = NULL]
    /\ notified' = notifyListeners
    /\ UNCHANGED <<cache, cacheExpiration, apiHandlers, listeners, populatedAt>>
\* fetchData after retryFetch threw: catch (error) { return null }
FetchCaught(c, f) ==
    /\ Continue(c, [f EXCEPT !.outcome = "failed", !.ret = CatchValue])
    /\ notified' = <<>>
    /\ UNCHANGED <<storeVars, populatedAt>>

\* what resumes when the call's retryFetch has taken a step
Resume(c, f) ==
    IF f.kind = "fetch" /\ f.pc = "done"
    THEN IF f.outcome = "returned" THEN FetchReturned(c, f) ELSE FetchCaught(c, f)
    ELSE /\ Continue(c, f)
         /\ notified' = <<>>
         /\ UNCHANGED <<storeVars, populatedAt>>

ServeFromCacheTouching(c, f) ==
    /\ Continue(c, [f EXCEPT !.pc = "done", !.outcome = "hit", !.ret = cache[f.key]])
    /\ cacheExpiration' = MapSet(cacheExpiration, f.key, f.now)
    /\ notified' = <<>>
    /\ UNCHANGED <<state, cache, apiHandlers, listeners, populatedAt>>
\* return this.cache.get(key)
ServeFromCache(c, f) ==
    /\ Continue(c, [f EXCEPT !.pc = "done", !.outcome = "hit", !.ret = cache[f.key]])
    /\ notified' = <<>>
    /\ UNCHANGED <<storeVars, populatedAt>>

NoHandlerStoresNull(c, f) ==
    /\ Continue(c, [f EXCEPT !.pc = "done", !.outcome = "nohandler", !.ret = NULL])
    /\ state' = [state EXCEPT ![f.key] = NULL]
    /\ notified' = notifyListeners
    /\ UNCHANGED <<cache, cacheExpiration, apiHandlers, listeners, populatedAt>>
\* if (!this.apiHandlers[key]) { console.error(..); return null }
NoHandler(c, f) ==
    /\ Continue(c, [f EXCEPT !.pc = "done", !.outcome = "nohandler", !.ret = NULL])
    /\ notified' = <<>>
    /\ UNCHANGED <<storeVars, populatedAt>>

\* fetchData(key, method, payload, urlPath, keepCache) up to its first await
fetchData(c, key, method, payload, urlPath, keepCache) ==
    /\ ops < budget
    /\ FreeSlot(c)
    /\ ops' = ops + 1
    /\ UNCHANGED clock
    /\ LET f == [IdleCall EXCEPT !.id = ops + 1,
                                 !.kind = "fetch", !.key = key, !.method = method,
                                 !.keepCache = keepCache, !.now = clock]
       IN  IF method = "GET" /\ IsFresh(key, clock)
           THEN ServeFromCache(c, f)
           ELSE IF ~MapHas(apiHandlers, key)
           THEN NoHandler(c, f)
           ELSE Resume(c, retryFetch(
                        [f EXCEPT !.fetchFunction = apiHandlers[key].fetchFunction,
                                  !.arg = HandlerArg(method, payload, urlPath)],
                        DefaultRetries, DefaultDelay))
    /\ lastOp' = Op("fetchData", key)
    /\ UNCHANGED handles
    /\ HookListens

\* the pending fetch function's promise is fulfilled with v
HandlerResolve(c, v) ==
    /\ calls[c].pc = "await"
    /\ UNCHANGED <<clock, ops>>
    /\ Resume(c, RetryReturn(calls[c], v))
    /\ lastOp' = Op("resolve", calls[c].key)
    /\ UNCHANGED handles
    /\ HookListens

\* the pending fetch function's promise is rejected
HandlerReject(c) ==
    /\ calls[c].pc = "await"
    /\ UNCHANGED <<clock, ops>>
    /\ Resume(c, RetryCatch(calls[c], clock))
    /\ lastOp' = Op("reject", calls[c].key)
    /\ UNCHANGED handles
    /\ HookListens

\* the backoff timer fires, no earlier than its delay
BackoffFire(c) ==
    /\ calls[c].pc = "sleep"
    /\ Max(clock, calls[c].wakeAt) <= MaxClock
    /\ clock' = Max(clock, calls[c].wakeAt)
    /\ UNCHANGED ops
    /\ Resume(c, RetryLoop(calls[c]))
    /\ lastOp' = Op("setTimeout", calls[c].key)
    /\ UNCHANGED handles
    /\ HookListens

Next ==
    \/ Tick
    \/ \E k \in Keys : \E p \in [{k} -> PartialVals] : setState(p)
    \/ \E k \in Keys : clearCacheKey(k)
    \/ clearCacheAll
    \/ \E s \in OneSubscriber : subscribe(s)
    \/ \E s \in OneSubscriber : unsubscribe(s)
    \/ \E k \in Keys, fn \in OneFunction, d \in OneDuration : registerAPI(k, fn, d)
    \/ \E c \in Sequential, k \in Keys, m \in Methods, kc \in BOOLEAN :
          fetchData(c, k, m, PAYLOAD, URLPATH, kc)
    \/ \E c \in Calls, v \in Results : HandlerResolve(c, v)
    \/ \E c \in Calls : HandlerReject(c)
    \/ \E c \in Calls : BackoffFire(c)

Spec == Init /\ [][Next]_vars

----------------------------------------------------------------------------
(* The JavaScript copy of the store *)

\* payload for POST and PUT, urlPath otherwise
HandlerArgJS(method, payload, urlPath) ==
    IF method \in {"POST", "PUT"} THEN payload ELSE urlPath

\* this.cache.has(key) && cacheExpirationTime &&
\* now - cacheExpirationTime <= this.apiHandlers[key]?.cacheDuration
IsFreshJS(key, now) ==
    /\ MapHas(cache, key)
    /\ MapHas(cacheExpiration, key)
    /\ cacheExpiration[key] # 0
    /\ MapHas(apiHandlers, key)
    /\ now - cacheExpiration[key] <= apiHandlers[key].cacheDuration

\* fetchData(key, method, payload, urlPath, keepCache) of the JavaScript copy,
\* up to its first await
fetchDataJS(c, key, method, payload, urlPath, keepCache) ==
    /\ ops < budget
    /\ FreeSlot(c)
    /\ ops' = ops + 1
    /\ UNCHANGED clock
    /\ LET f == [IdleCall EXCEPT !.id = ops + 1,
                                 !.kind = "fetch", !.key = key, !.method = method,
                                 !.keepCache = keepCache, !.now = clock]
       IN  IF method = "GET" /\ IsFreshJS(key, clock)
           THEN ServeFromCache(c, f)
           ELSE IF ~MapHas(apiHandlers, key)
           THEN NoHandler(c, f)
           ELSE Resume(c, retryFetch(
                        [f EXCEPT !.fetchFunction = apiHandlers[key].fetchFunction,
                                  !.arg = HandlerArgJS(method, payload, urlPath)],
                        DefaultRetries, DefaultDelay))
    /\ lastOp' = Op("fetchData", key)
    /\ UNCHANGED handles
    /\ HookListens

NextJS ==
    \/ Tick
    \/ \E k \in Keys, fn \in OneFunction, d \in Durations : registerAPI(k, fn, d)
    \/ \E c \in Sequential, k \in Keys, m \in Methods, kc \in BOOLEAN :
          fetchDataJS(c, k, m, PAYLOAD, URLPATH, kc)
    \/ \E c \in Calls, v \in Results : HandlerResolve(c, v)
    \/ \E c \in Calls : HandlerReject(c)
    \/ \E c \in Calls : BackoffFire(c)

SpecJS == Init /\ [][NextJS]_vars

----------------------------------------------------------------------------
(* retryFetch on its own, with any retries and delay *)

\* retryFetch(fetchFunction, retries, delay) up to its first await
RetryStart(c, retries, delay) ==
    /\ ops < budget
    /\ FreeSlot(c)
    /\ ops' = ops + 1
    /\ UNCHANGED clock
    /\ Resume(c, retryFetch([IdleCall EXCEPT !.id = ops + 1, !.kind = "retry",
                                                 !.now = clock],
                            retries, delay))
    /\ lastOp' = Op("retryFetch", "")
    /\ UNCHANGED handles
    /\ HookListens

NextRetry ==
    \/ \E c \in Sequential, r \in 0..MaxRetries, d \in Delays :
          RetryStart(c, r, d)
    \/ \E c \in Calls, v \in Results : HandlerResolve(c, v)
    \/ \E c \in Calls : HandlerReject(c)
    \/ \E c \in Calls : BackoffFire(c)

SpecRetry == Init /\ [][NextRetry]_vars

----------------------------------------------------------------------------
(* The store with calls that overlap *)

\* the key the overlapping calls share
SharedKey == {"a"}
\* a read and a write
ConcurrentMethods == {"GET", "POST"}
\* what the fetch functions of overlapping calls resolve with
ConcurrentResults == {ListA, ListB}

NextConcurrent ==
    \/ Tick
    \/ clearCacheAll
    \/ \E k \in SharedKey, fn \in OneFunction, d \in OneDuration : registerAPI(k, fn, d)
    \/ \E c \in Calls, k \in SharedKey, m \in ConcurrentMethods, kc \in BOOLEAN :
          fetchData(c, k, m, PAYLOAD, URLPATH, kc)
    \/ \E c \in Calls, v \in ConcurrentResults : HandlerResolve(c, v)
    \/ \E c \in Calls : HandlerReject(c)
    \/ \E c \in Calls : BackoffFire(c)

SpecConcurrent == Init /\ [][NextConcurrent]_vars

----------------------------------------------------------------------------
(* The cache over longer runs: registrations, reads, clears *)

\* operations in one behaviour: two more than elsewhere
MaxCacheOps == MaxOps + 2
InitCache == InitWith(MaxCacheOps)
\* what the fetch functions, which do not fail here, resolve with
CacheResults == {ListA, ListB}

NextCache ==
    \/ Tick
    \/ \E k \in Keys : clearCacheKey(k)
    \/ clearCacheAll
    \/ \E k \in Keys, fn \in FetchFunctions, d \in Durations : registerAPI(k, fn, d)
    \/ \E c \in Sequential, k \in Keys :
          fetchData(c, k, "GET", PAYLOAD, URLPATH, TRUE)
    \/ \E c \in Calls, v \in CacheResults : HandlerResolve(c, v)

SpecCache == InitCache /\ [][NextCache]_vars

----------------------------------------------------------------------------
(* useStore *)

\* operations in one behaviour of a mounted hook: the mount and the store's
MaxHookOps == MaxOps + 1
InitHook == InitWith(MaxHookOps)

\* cache.has(key) && cacheExpirationTime !== undefined && now - .. <= lifetime,
\* for the cache as a function of the hook has left it
IsFreshIn(cacheNow, expirationNow, key, now) ==
    /\ MapHas(cacheNow, key)
    /\ MapHas(expirationNow, key)
    /\ now - expirationNow[key] <= Lifetime(key)

\* store.fetchData(key, method, payload, urlPath, keepCache) up to its first
\* await: the call it leaves behind
FirstRun(key, method, payload, urlPath, keepCache, cacheNow, expirationNow) ==
    LET f == [IdleCall EXCEPT !.id = ops + 1, !.kind = "fetch", !.key = key,
                              !.method = method, !.keepCache = keepCache,
                              !.now = clock]
    IN  IF method = "GET" /\ IsFreshIn(cacheNow, expirationNow, key, clock)
        THEN [f EXCEPT !.pc = "done", !.outcome = "hit", !.ret = cacheNow[key]]
        ELSE IF ~MapHas(apiHandlers, key)
        THEN [f EXCEPT !.pc = "done", !.outcome = "nohandler", !.ret = NULL]
        ELSE retryFetch(
                [f EXCEPT !.fetchFunction = apiHandlers[key].fetchFunction,
                          !.arg = HandlerArg(method, payload, urlPath)],
                DefaultRetries, DefaultDelay)

\* setIsLoading(true); setIsError(null); ... await store.fetchData(..)
HookFetch(c, fn, previousState, method, payload, keepCache, cacheNow, expirationNow) ==
    /\ isLoading' = TRUE
    /\ isError' = NULL
    /\ awaiting' = [awaiting EXCEPT ![c] =
                        [fn |-> fn, previousState |-> previousState]]
    /\ Continue(c, FirstRun(HookKey, method, payload, URLPATH, keepCache,
                            cacheNow, expirationNow))

\* the first render and its effects: useState(() => ..), then fetchDataIfNeeded
\* when method === "GET", then store.subscribe(updateState)
Mount(c, method, keepCache) ==
    /\ ops < budget
    /\ ~HookSubscribed
    /\ FreeSlot(c)
    /\ awaiting[c].fn = "none"
    /\ ops' = ops + 1
    /\ props' = [method |-> method, keepCache |-> keepCache, itemId |-> NoId]
    /\ hookState' = Select(state[HookKey], NoId)
    /\ IF method = "GET"
       THEN HookFetch(c, "fetchDataIfNeeded", UNDEFINED, method, PAYLOAD, keepCache,
                      cache, cacheExpiration)
       ELSE UNCHANGED <<isLoading, isError, awaiting, calls>>
    /\ listeners' = Append(listeners, "updateState")
    /\ handles' = [handles EXCEPT !["updateState"] = @ + 1]
    /\ notified' = <<>>
    /\ lastOp' = [Op("useStore", HookKey) EXCEPT !.callback = "updateState"]
    /\ UNCHANGED <<clock, state, cache, cacheExpiration, apiHandlers, populatedAt,
                   budget>>

\* executeMutation(mutationPayload) up to its await
executeMutation(c, mutationPayload) ==
    /\ ops < budget
    /\ HookSubscribed
    /\ FreeSlot(c)
    /\ awaiting[c].fn = "none"
    /\ ops' = ops + 1
    /\ HookFetch(c, "executeMutation", hookState, props.method, mutationPayload,
                 props.keepCache, cache, cacheExpiration)
    /\ notified' = <<>>
    /\ lastOp' = Op("executeMutation", HookKey)
    /\ UNCHANGED <<clock, storeVars, populatedAt, props, hookState, budget, handles>>

refreshDataKeepingCache(c) ==
    /\ ops < budget
    /\ HookSubscribed
    /\ FreeSlot(c)
    /\ awaiting[c].fn = "none"
    /\ ops' = ops + 1
    /\ HookFetch(c, "refreshData", UNDEFINED, props.method, PAYLOAD, FALSE,
                 cache, cacheExpiration)
    /\ notified' = <<>>
    /\ lastOp' = [Op("refreshData", HookKey) EXCEPT !.fresh = FreshKeys]
    /\ UNCHANGED <<clock, storeVars, populatedAt, props, hookState, budget, handles>>
\* refreshData() up to its await: store.clearCache(key), then the fetch with
\* keepCache = false
refreshData(c) ==
    /\ ops < budget
    /\ HookSubscribed
    /\ FreeSlot(c)
    /\ awaiting[c].fn = "none"
    /\ ops' = ops + 1
    /\ cache' = MapDelete(cache, HookKey)
    /\ cacheExpiration' = MapDelete(cacheExpiration, HookKey)
    /\ populatedAt' = [populatedAt EXCEPT ![HookKey] = -1]
    /\ HookFetch(c, "refreshData", UNDEFINED, props.method, PAYLOAD, FALSE,
                 cache', cacheExpiration')
    /\ notified' = <<>>
    /\ lastOp' = [Op("refreshData", HookKey) EXCEPT !.fresh = FreshKeys]
    /\ UNCHANGED <<clock, state, apiHandlers, listeners, props, hookState, budget, handles>>

\* store.fetchData never rejects: every path of it returns
Rejected(f) == f.kind = "fetch" /\ f.outcome = "threw"

\* the hook function goes on after its await: if (data) setState(..) or, had the
\* promise been rejected, the catch block; finally setIsLoading(false)
HookResumeStillLoading(c) ==
    /\ awaiting[c].fn # "none"
    /\ calls[c].pc = "done"
    /\ isError' = isError
    /\ hookState' = IF Truthy(calls[c].ret)
                    THEN Select(calls[c].ret, props.itemId)
                    ELSE hookState
    /\ isLoading' = isLoading
    /\ awaiting' = [awaiting EXCEPT ![c] = AwaitNone]
    /\ notified' = <<>>
    /\ lastOp' = Op(awaiting[c].fn, HookKey)
    /\ UNCHANGED <<clock, storeVars, calls, populatedAt, ops, props, budget, handles>>
HookResume(c) ==
    /\ awaiting[c].fn # "none"
    /\ calls[c].pc = "done"
    /\ IF Rejected(calls[c])
       THEN /\ isError' = [tag |-> "error", items |-> <<>>]
            /\ hookState' = IF awaiting[c].fn = "executeMutation"
                            THEN awaiting[c].previousState
                            ELSE hookState
       ELSE /\ isError' = isError
            /\ hookState' = IF Truthy(calls[c].ret)
                            THEN Select(calls[c].ret, props.itemId)
                            ELSE hookState
    /\ isLoading' = FALSE
    /\ awaiting' = [awaiting EXCEPT ![c] = AwaitNone]
    /\ notified' = <<>>
    /\ lastOp' = Op(awaiting[c].fn, HookKey)
    /\ UNCHANGED <<clock, storeVars, calls, populatedAt, ops, props, budget, handles>>

FilterOutStrict(items, id) ==
    SelectSeq(items, LAMBDA item : ~(id.type = "number" /\ item.id = id.num))
\* currentData.filter((item) => String(item[idKey]) !== String(deleteItemId))
FilterOut(items, id) ==
    SelectSeq(items, LAMBDA item : ToString(item.id) # String(id))

\* deleteItem(deleteItemId)
deleteItem(deleteItemId) ==
    /\ ops < budget
    /\ HookSubscribed
    /\ ops' = ops + 1
    /\ lastOp' = [Op("deleteItem", HookKey) EXCEPT !.id = deleteItemId]
    /\ IF Falsy(deleteItemId)
       THEN /\ notified' = <<>>
            /\ UNCHANGED state
       ELSE /\ state' = MergeState(state,
                           [k \in {HookKey} |->
                               IF IsArray(state[HookKey])
                               THEN Arr(FilterOut(state[HookKey].items, deleteItemId))
                               ELSE Arr(<<>>)])
            /\ notified' = notifyListeners
    /\ UNCHANGED <<clock, cache, cacheExpiration, apiHandlers, listeners, calls,
                   populatedAt>>
    /\ UNCHANGED handles
    /\ HookListens

\* { ...item, ...updatedFields }
ShallowMerge(item, updatedFields) ==
    [k \in (DOMAIN item) \cup (DOMAIN updatedFields) |->
        IF k \in DOMAIN updatedFields THEN updatedFields[k] ELSE item[k]]

EditItemsReplacing(items, editItemId, updatedFields) ==
    [i \in 1..Len(items) |->
        IF ToString(items[i].id) = String(editItemId)
        THEN updatedFields
        ELSE items[i]]
\* store.state[key].map((item) => String(item[idKey]) === String(editItemId)
\*                                   ? { ...item, ...updatedFields } : item)
EditItems(items, editItemId, updatedFields) ==
    [i \in 1..Len(items) |->
        IF ToString(items[i].id) = String(editItemId)
        THEN ShallowMerge(items[i], updatedFields)
        ELSE items[i]]

\* what editItem returns when the key holds no array
NoArrayFound(build) ==
    IF build = "ts"
    THEN [status |-> FALSE, message |-> "No valid array found for key"]
    ELSE [status |-> FALSE]

\* what editItem returns after the edit
Edited == [status |-> TRUE, message |-> "Item edited successfully"]

\* what editItem's catch block returns
EditCaught(build) ==
    IF build = "ts"
    THEN [status |-> FALSE, message |-> "Error editing item: "]
    ELSE [status |-> FALSE, message |-> "error in edit item "]

\* editItem(editItemId, updatedFields)
editItem(build, editItemId, updatedFields) ==
    /\ ops < budget
    /\ HookSubscribed
    /\ ops' = ops + 1
    /\ IF ~Truthy(state[HookKey]) \/ ~IsArray(state[HookKey])
       THEN /\ lastOp' = [Op("editItem", HookKey) EXCEPT
                            !.id = editItemId, !.fields = updatedFields,
                            !.ret = NoArrayFound(build)]
            /\ notified' = <<>>
            /\ UNCHANGED <<state, cache, populatedAt>>
       ELSE LET updatedItems == Arr(EditItems(state[HookKey].items, editItemId,
                                              updatedFields))
            IN  /\ state' = MergeState(state, [k \in {HookKey} |-> updatedItems])
                /\ notified' = notifyListeners
                /\ cache' = IF BroadcastThrows
                            THEN cache
                            ELSE MapSet(cache, HookKey, updatedItems)
                /\ populatedAt' = IF BroadcastThrows
                                  THEN populatedAt
                                  ELSE [populatedAt EXCEPT ![HookKey] = -1]
                /\ lastOp' = [Op("editItem", HookKey) EXCEPT
                                !.id = editItemId, !.fields = updatedFields,
                                !.ret = IF BroadcastThrows
                                        THEN EditCaught(build)
                                        ELSE Edited]
    /\ UNCHANGED <<clock, cacheExpiration, apiHandlers, listeners, calls>>
    /\ UNCHANGED handles
    /\ HookListens

\* the cleanup of the subscription effect, run when the component unmounts
\* with no hook function awaiting: unsubscribe()
Unmount ==
    /\ ops < budget
    /\ HookSubscribed
    /\ \A c \in Calls : awaiting[c].fn = "none"
    /\ ops' = ops + 1
    /\ listeners' = SelectSeq(listeners, LAMBDA x : x # "updateState")
    /\ handles' = [handles EXCEPT !["updateState"] = @ - 1]
    /\ notified' = <<>>
    /\ lastOp' = [Op("unsubscribe", HookKey) EXCEPT !.callback = "updateState"]
    /\ UNCHANGED <<clock, state, cache, cacheExpiration, apiHandlers, calls,
                   populatedAt, budget, hookVars>>

NextHook ==
    \/ Tick
    \/ \E v \in HookVals : setState([k \in {HookKey} |-> v])
    \/ \E fn \in OneFunction, d \in OneDuration : registerAPI(HookKey, fn, d)
    \/ \E c \in Sequential, m \in HookMethods, kc \in BOOLEAN : Mount(c, m, kc)
    \/ \E c \in Sequential : executeMutation(c, PAYLOAD)
    \/ \E c \in Sequential : refreshData(c)
    \/ \E id \in TargetIds : deleteItem(id)
    \/ \E b \in Builds, id \in TargetIds, u \in UpdatedFields : editItem(b, id, u)
    \/ \E c \in Calls, v \in HookResults : HandlerResolve(c, v)
    \/ \E c \in Calls : HandlerReject(c)
    \/ \E c \in Calls : BackoffFire(c)
    \/ \E c \in Calls : HookResume(c)

SpecHook == InitHook /\ [][NextHook]_vars

----------------------------------------------------------------------------
(* The hook with fetches that overlap: a hook function is called while another
   one is still awaiting *)

\* the id given to deleteItem and editItem where one is enough
OneTarget == {Num(5)}
\* the hook as its TypeScript source has it
OneBuild == {"ts"}

NextRace ==
    \/ Tick
    \/ \E fn \in OneFunction, d \in OneDuration : registerAPI(HookKey, fn, d)
    \/ clearCacheKey(HookKey)
    \/ clearCacheAll
    \/ \E b \in OneBuild, id \in OneTarget, u \in UpdatedFields : editItem(b, id, u)
    \/ \E c \in Calls, m \in HookMethods : Mount(c, m, TRUE)
    \/ \E c \in Calls : executeMutation(c, PAYLOAD)
    \/ \E c \in Calls : refreshData(c)
    \/ \E c \in Calls : fetchData(c, HookKey, "GET", PAYLOAD, URLPATH, TRUE)
    \/ \E c \in Calls, v \in ConcurrentResults : HandlerResolve(c, v)
    \/ \E c \in Calls : HookResume(c)

SpecRace == InitHook /\ [][NextRace]_vars

----------------------------------------------------------------------------
(* The hook under fair scheduling: every pending promise of a fetch function
   is settled, every timer fires, every continuation runs *)

\* the clock leaves room for the two backoff waits of a call that starts now
TimeLeft ==
    clock + BackoffDelay(DefaultDelay, 1) + BackoffDelay(DefaultDelay, 2) <= MaxClock

\* what the fetch functions resolve with
LiveResults == {ListA, NULL}

\* the fetch function's promise is settled
Settle(c) == (\E v \in LiveResults : HandlerResolve(c, v)) \/ HandlerReject(c)

NextLive ==
    \/ \E fn \in OneFunction, d \in OneDuration : registerAPI(HookKey, fn, d)
    \/ \E c \in Sequential, m \in HookMethods, kc \in BOOLEAN :
          TimeLeft /\ Mount(c, m, kc)
    \/ \E c \in Sequential : TimeLeft /\ executeMutation(c, PAYLOAD)
    \/ \E c \in Sequential : TimeLeft /\ refreshData(c)
    \/ \E c \in Sequential, m \in HookMethods, kc \in BOOLEAN :
          TimeLeft /\ fetchData(c, HookKey, m, PAYLOAD, URLPATH, kc)
    \/ \E c \in Calls : Settle(c)
    \/ \E c \in Calls : BackoffFire(c)
    \/ \E c \in Calls : HookResume(c)

Fairness ==
    \A c \in Calls :
        /\ WF_vars(Settle(c))
        /\ WF_vars(BackoffFire(c))
        /\ WF_vars(HookResume(c))

SpecLive == InitHook /\ [][NextLive]_vars /\ Fairness

----------------------------------------------------------------------------
(* The store with a subscriber that throws *)

\* the callbacks subscribed: one that returns and one that throws
ThrowSubscribers == OneSubscriber \cup Throwers

NextThrow ==
    \/ \E k \in SharedKey : \E p \in [{k} -> PartialVals] : setState(p)
    \/ \E s \in ThrowSubscribers : subscribe(s)
    \/ \E s \in ThrowSubscribers : unsubscribe(s)
    \/ \E k \in SharedKey, fn \in OneFunction, d \in OneDuration : registerAPI(k, fn, d)
    \/ \E c \in Sequential, k \in SharedKey, m \in ConcurrentMethods, kc \in BOOLEAN :
          fetchData(c, k, m, PAYLOAD, URLPATH, kc)
    \/ \E c \in Calls, v \in Results : HandlerResolve(c, v)
    \/ \E c \in Calls : HandlerReject(c)
    \/ \E c \in Calls : BackoffFire(c)

SpecThrow == InitHook /\ [][NextThrow]_vars

----------------------------------------------------------------------------
(* createStore, beside the store's and the hook's operations *)

\* initialState arguments given to createStore: {} and { a: [..] }
InitialStates == {[k \in Keys |-> UNDEFINED],
                  [k \in Keys |-> IF k = HookKey THEN ListB ELSE UNDEFINED]}

\* createStore(initialState): store.state = initialState; return store, the one
\* store of the module
createStore(initialState) ==
    /\ ops < budget
    /\ ops' = ops + 1
    /\ state' = initialState
    /\ notified' = <<>>
    /\ lastOp' = [Op("createStore", "") EXCEPT !.partial = initialState]
    /\ UNCHANGED <<clock, cache, cacheExpiration, apiHandlers, listeners, calls,
                   populatedAt>>
    /\ UNCHANGED handles
    /\ HookListens

NextCreate ==
    \/ Tick
    \/ \E k \in Keys : \E p \in [{k} -> PartialVals] : setState(p)
    \/ \E k \in Keys : clearCacheKey(k)
    \/ \E s \in InitialStates : createStore(s)
    \/ \E k \in SharedKey, fn \in OneFunction, d \in OneDuration : registerAPI(k, fn, d)
    \/ \E c \in Sequential, k \in SharedKey, m \in Methods, kc \in BOOLEAN :
          fetchData(c, k, m, PAYLOAD, URLPATH, kc)
    \/ \E c \in Sequential, m \in HookMethods : Mount(c, m, TRUE)
    \/ \E id \in OneTarget : deleteItem(id)
    \/ \E b \in OneBuild, id \in OneTarget, u \in UpdatedFields : editItem(b, id, u)
    \/ \E c \in Calls, v \in CacheResults : HandlerResolve(c, v)
    \/ \E c \in Calls : HookResume(c)

SpecCreate == InitHook /\ [][NextCreate]_vars

----------------------------------------------------------------------------
(* The listeners: callbacks subscribed and unsubscribed beside a hook that
   mounts and unmounts *)

\* operations in one behaviour: three more than elsewhere
MaxListenerOps == MaxOps + 3
InitListeners == InitWith(MaxListenerOps)
\* what the hook's fetch resolves with
ListenerResults == {ListA}

NextListeners ==
    \/ \E S \in SUBSET Keys : \E p \in [S -> PartialVals] : setState(p)
    \/ \E s \in Subscribers : subscribe(s)
    \/ \E s \in Subscribers : unsubscribe(s)
    \/ \E fn \in OneFunction, d \in OneDuration : registerAPI(HookKey, fn, d)
    \/ \E c \in Sequential : Mount(c, "GET", TRUE)
    \/ Unmount
    \/ \E c \in Calls, v \in ListenerResults : HandlerResolve(c, v)
    \/ \E c \in Calls : HookResume(c)

SpecListeners == InitListeners /\ [][NextListeners]_vars

----------------------------------------------------------------------------
(* Steps of a call, as the claims speak of them *)

\* call c starts in this step
StartsFetch(c) == calls'[c].id # calls[c].id /\ calls'[c].kind = "fetch"
\* call c takes a step
StepOf(c) == calls'[c] # calls[c]
\* in this step the fetch function of call c resolves, and fetchData goes on with
\* the data, which it returns
Returned(c) ==
    /\ calls[c].kind = "fetch"
    /\ calls[c].pc = "await"
    /\ calls'[c].pc = "done"
    /\ calls'[c].attempts = calls[c].attempts
\* every invocation of the fetch function failed and retryFetch gave up
AllFailed(f) == f.pc = "done" /\ f.invoked > 0 /\ f.attempts = f.invoked
WriteMethods == {"POST", "PUT", "DELETE"}
NullEquivalent(v) == v.tag \in {"null", "undefined"}
NonEmpty(v) == v.tag = "array" /\ Len(v.items) > 0

----------------------------------------------------------------------------
(* C1: a GET called at t0 populated the cache entry of a key whose handler has
   lifetime L. A GET for the key called at t1, the entry being still the one
   that GET wrote, is served from the cache without invoking the handler when
   t1 - t0 <= L, and invokes the handler when t1 - t0 > L. *)
C1_Freshness ==
    [][\A c \in Calls :
        LET f == calls'[c]
            k == f.key
        IN  (StartsFetch(c) /\ f.method = "GET" /\ populatedAt[k] >= 0
                /\ MapHas(apiHandlers, k))
            => /\ (clock - populatedAt[k] <= apiHandlers[k].cacheDuration)
                    => (f.pc = "done" /\ f.invoked = 0 /\ f.ret = cache[k])
               /\ (clock - populatedAt[k] > apiHandlers[k].cacheDuration)
                    => (f.pc = "await" /\ f.invoked = 1)]_vars

\* a GET served from the cache exactly L after the GET that populated it
C1_Witness ==
    \E c \in Calls :
        /\ calls[c].outcome = "hit"
        /\ populatedAt[calls[c].key] >= 0
        /\ apiHandlers[calls[c].key].cacheDuration > 0
        /\ calls[c].now - populatedAt[calls[c].key]
              = apiHandlers[calls[c].key].cacheDuration

(* C2: a GET served from a fresh cache entry invokes no handler, changes neither
   the state nor the cache value nor the cache timestamp, and notifies no
   subscriber. *)
C2_HitHasNoEffect ==
    [][\A c \in Calls :
        (StartsFetch(c) /\ calls'[c].method = "GET" /\ IsFresh(calls'[c].key, clock))
        => /\ calls'[c].pc = "done"
           /\ calls'[c].invoked = 0
           /\ state' = state
           /\ cache' = cache
           /\ cacheExpiration' = cacheExpiration
           /\ notified' = <<>>]_vars

\* a GET was served from the cache and returned what an earlier GET had fetched
C2_Witness ==
    \E c \in Calls :
        /\ calls[c].outcome = "hit"
        /\ calls[c].ret = ListA
        /\ state[calls[c].key] = ListA

(* C3: when the handler fails on every attempt, fetchData resolves to null
   instead of rejecting, and no step of the call changes the state of any key. *)
C3_FailureKeepsState ==
    [][\A c \in Calls :
        LET f == calls'[c]
        IN  /\ (StepOf(c) /\ f.kind = "fetch" /\ AllFailed(f))
                => (f.outcome # "threw" /\ f.ret = NULL
                    /\ f.invoked = DefaultRetries /\ state' = state)
            /\ (StepOf(c) /\ f.kind = "fetch" /\ f.pc # "done")
                => state' = state]_vars

\* a call gave up after its last retry, the key holding a value
C3_Witness ==
    \E c \in Calls :
        /\ calls[c].kind = "fetch"
        /\ AllFailed(calls[c])
        /\ calls[c].invoked = DefaultRetries
        /\ calls[c].ret = NULL
        /\ state[calls[c].key] = ListB

(* C4: for a key with no registered handler, fetchData with any method returns
   null, invokes no handler, changes neither state nor cache, and notifies no
   subscriber. *)
C4_NoHandler ==
    [][\A c \in Calls :
        (StartsFetch(c) /\ ~MapHas(apiHandlers, calls'[c].key))
        => /\ calls'[c].pc = "done"
           /\ calls'[c].ret = NULL
           /\ calls'[c].invoked = 0
           /\ state' = state
           /\ cache' = cache
           /\ cacheExpiration' = cacheExpiration
           /\ notified' = <<>>]_vars

\* a write call for an unregistered key returned while a subscriber was listening
C4_Witness ==
    \E c \in Calls :
        /\ calls[c].outcome = "nohandler"
        /\ calls[c].method = "DELETE"
        /\ ~MapHas(apiHandlers, calls[c].key)
        /\ Len(listeners) > 0

(* C5: retryFetch with maxAttempts >= 1 returns on the N-th invocation when that
   is the first to succeed (N - 1 failures, N <= maxAttempts), never gives up
   before maxAttempts failures, and after maxAttempts failures has invoked the
   function exactly maxAttempts times and throws the last failure. *)
C5_RetryCount ==
    \A c \in Calls :
        LET f == calls[c]
        IN  (f.kind = "retry" /\ f.retries >= 1)
            => /\ f.pc = "await" => (f.invoked = f.attempts + 1 /\ f.invoked <= f.retries)
               /\ f.pc = "sleep" => (f.invoked = f.attempts /\ f.attempts < f.retries)
               /\ (f.pc = "done" /\ f.outcome = "returned")
                    => (f.invoked = f.attempts + 1 /\ f.invoked <= f.retries)
               /\ (f.pc = "done" /\ f.outcome = "threw")
                    => (f.attempts = f.retries /\ f.invoked = f.retries
                        /\ f.err = f.retries)

\* retryFetch threw after three failed invocations
C5_Witness ==
    \E c \in Calls :
        /\ calls[c].kind = "retry"
        /\ calls[c].outcome = "threw"
        /\ calls[c].retries = DefaultRetries
        /\ calls[c].invoked = DefaultRetries

(* C6: with maxAttempts = 0 retryFetch invokes the function exactly once and,
   if that attempt fails, throws its failure. *)
C6_ZeroRetriesOneAttempt ==
    \A c \in Calls :
        (calls[c].kind = "retry" /\ calls[c].retries = 0)
        => /\ calls[c].invoked = 1
           /\ (calls[c].outcome = "threw" => calls[c].err = 1)

(* C7 as written: the wait before attempt k (from 1) is baseDelay * 2^k, and
   there is no wait after the final failed attempt. The i-th wait comes before
   attempt i + 1. *)
C7_WaitBeforeAttemptK ==
    \A c \in Calls :
        LET f == calls[c]
        IN  f.kind = "retry"
            => /\ \A i \in 1..Len(f.waits) : f.waits[i] = f.delay * Pow2(i + 1)
               /\ (f.pc = "done" /\ f.outcome = "threw" /\ f.retries >= 1)
                    => Len(f.waits) = f.invoked - 1

(* C7 amended: the wait after the j-th failed attempt, which comes before
   attempt j + 1, is baseDelay * 2^j; there is no wait before the first attempt
   and none after the final failed attempt. *)
C7_WaitAfterFailureJ ==
    \A c \in Calls :
        LET f == calls[c]
        IN  f.kind = "retry"
            => /\ \A j \in 1..Len(f.waits) : f.waits[j] = f.delay * Pow2(j)
               /\ f.pc = "await" => Len(f.waits) = f.invoked - 1
               /\ f.pc = "sleep" => Len(f.waits) = f.invoked
               /\ (f.pc = "done" /\ f.outcome = "threw" /\ f.retries >= 1)
                    => Len(f.waits) = f.invoked - 1

\* retryFetch gave up after waiting at least twice
C7_Witness ==
    \E c \in Calls :
        /\ calls[c].kind = "retry"
        /\ calls[c].outcome = "threw"
        /\ Len(calls[c].waits) >= 2

(* C8: when the handler succeeds with a non-null, non-empty result, fetchData
   replaces the state at the key with it and notifies every subscriber whatever
   keepCache is, and writes the cache entry (the result, and the timestamp the
   call read from the clock) exactly when keepCache is true. *)
C8_SuccessStores ==
    [][\A c \in Calls :
        LET f == calls'[c]
        IN  (Returned(c) /\ NonEmpty(f.ret))
            => /\ state' = [state EXCEPT ![f.key] = f.ret]
               /\ notified' = <<listeners>>
               /\ f.keepCache => /\ MapHas(cache', f.key)
                                 /\ cache'[f.key] = f.ret
                                 /\ MapHas(cacheExpiration', f.key)
                                 /\ cacheExpiration'[f.key] = f.now
                                 /\ \A k \in Keys \ {f.key} :
                                      /\ MapHas(cache', k) = MapHas(cache, k)
                                      /\ MapHas(cache, k) => cache'[k] = cache[k]
                                      /\ MapHas(cacheExpiration', k)
                                            = MapHas(cacheExpiration, k)
                                      /\ MapHas(cacheExpiration, k)
                                            => cacheExpiration'[k] = cacheExpiration[k]
               /\ ~f.keepCache => (cache' = cache
                                   /\ cacheExpiration' = cacheExpiration)]_vars

\* a call with keepCache = false stored its result and notified the subscriber
C8_Witness ==
    \E c \in Calls :
        /\ calls[c].outcome = "stored"
        /\ ~calls[c].keepCache
        /\ NonEmpty(calls[c].ret)
        /\ state[calls[c].key] = calls[c].ret
        /\ Len(listeners) > 0
        /\ notified = <<listeners>>

(* C9 as written: when the handler succeeds with null, undefined or an empty
   sequence, fetchData writes no cache entry, leaves the state unchanged,
   notifies no subscriber and returns the null-equivalent. *)
C9_EmptyResultIgnored ==
    [][\A c \in Calls :
        (Returned(c) /\ ~NonEmpty(calls'[c].ret))
        => /\ cache' = cache
           /\ cacheExpiration' = cacheExpiration
           /\ state' = state
           /\ notified' = <<>>
           /\ NullEquivalent(calls'[c].ret)]_vars

(* C9 amended: when the handler succeeds with null or undefined, fetchData
   writes no cache entry, leaves the state unchanged, notifies no subscriber and
   returns that null-equivalent; an empty sequence is stored like any other
   result. *)
C9_NullResultIgnored ==
    [][\A c \in Calls :
        /\ (Returned(c) /\ NullEquivalent(calls'[c].ret))
            => /\ cache' = cache
               /\ cacheExpiration' = cacheExpiration
               /\ state' = state
               /\ notified' = <<>>
        /\ (Returned(c) /\ calls'[c].ret = Arr(<<>>))
            => /\ state' = [state EXCEPT ![calls'[c].key] = Arr(<<>>)]
               /\ notified' = <<listeners>>]_vars

\* a handler resolved with null and the call returned it, a subscriber listening
C9_Witness ==
    \E c \in Calls :
        /\ calls[c].outcome = "skipped"
        /\ calls[c].ret = NULL
        /\ state[calls[c].key] = UNDEFINED
        /\ Len(listeners) > 0

(* C10: a POST, PUT or DELETE call with keepCache = false never changes the
   cache or the cache timestamps, neither creating an entry nor replacing nor
   re-stamping one, and when it succeeds with data it sets the state at the key
   to the data. *)
C10_WriteWithoutCache ==
    [][\A c \in Calls :
        LET f == calls'[c]
        IN  (StepOf(c) /\ f.kind = "fetch" /\ f.method \in WriteMethods
                /\ ~f.keepCache)
            => /\ cache' = cache
               /\ cacheExpiration' = cacheExpiration
               /\ (Returned(c) /\ Truthy(f.ret)) => state'[f.key] = f.ret]_vars

\* a write with keepCache = false stored new data beside an older cache entry
C10_Witness ==
    \E c \in Calls :
        /\ calls[c].outcome = "stored"
        /\ calls[c].method \in WriteMethods
        /\ ~calls[c].keepCache
        /\ MapHas(cache, calls[c].key)
        /\ cache[calls[c].key] # calls[c].ret
        /\ state[calls[c].key] = calls[c].ret
        /\ cacheExpiration[calls[c].key] < calls[c].now

----------------------------------------------------------------------------
(* C11: two fetchData calls for one key overlap and both succeed with data. In
   the step in which the second of them completes, the state at the key becomes
   the data of that call, and so does the cache value when the call keeps the
   cache, whether the call started before or after the other. *)
C11_LastCompletionWins ==
    [][\A c \in Calls : \A d \in Calls \ {c} :
        LET f == calls'[c]
        IN  (Returned(c) /\ Truthy(f.ret)
                /\ calls[d].kind = "fetch" /\ calls[d].outcome = "stored"
                /\ calls[d].key = f.key)
            => /\ state'[f.key] = f.ret
               /\ f.keepCache => (MapHas(cache', f.key) /\ cache'[f.key] = f.ret)]_vars

\* the call that started first completed last, after the other call had stored
\* different data, and its data is in the state and in the cache
C11_Witness ==
    \E c \in Calls : \E d \in Calls \ {c} :
        /\ calls[c].outcome = "stored" /\ calls[d].outcome = "stored"
        /\ calls[c].key = calls[d].key
        /\ calls[c].id < calls[d].id
        /\ calls[c].keepCache /\ calls[d].keepCache
        /\ calls[c].ret # calls[d].ret
        /\ state[calls[c].key] = calls[c].ret
        /\ cache[calls[c].key] = calls[c].ret

----------------------------------------------------------------------------
(* Steps of the hook, as the claims speak of them *)

\* the hook function awaiting call c goes on and finishes in this step
Finishes(c) == awaiting[c].fn # "none" /\ awaiting'[c].fn = "none"

(* C12: when the fetch a hook function started has failed on every attempt,
   isError is non-null once the hook function has finished. *)
C12_FailureSetsIsError ==
    [][\A c \in Calls :
        (Finishes(c) /\ AllFailed(calls[c]) /\ calls[c].invoked = DefaultRetries)
        => isError' # NULL]_vars

(* Operations, as the claims speak of them *)

\* this step is a call of the operation `name`
Calls_(name) == ops' = ops + 1 /\ lastOp'.name = name
\* the operation before this step was clearCache() with no key
AfterClearAll == lastOp.name = "clearCache" /\ lastOp.key = ""

(* C13: clearCache() with no argument leaves no cache value and no cache
   timestamp, and a GET that comes next for a key whose entry was fresh before
   the clear invokes the handler instead of being served from the cache. *)
C13_ClearAllRefetches ==
    [][/\ (Calls_("clearCache") /\ lastOp'.key = "")
            => (DOMAIN cache' = {} /\ DOMAIN cacheExpiration' = {})
       /\ \A c \in Calls :
            (StartsFetch(c) /\ calls'[c].method = "GET" /\ AfterClearAll
                /\ calls'[c].key \in lastOp.fresh)
            => /\ calls'[c].pc = "await"
               /\ calls'[c].invoked = 1
               /\ calls'[c].outcome # "hit"]_vars

\* clearCache() has just emptied a cache that held fresh entries for both keys
C13_Witness ==
    /\ lastOp.name = "clearCache" /\ lastOp.key = ""
    /\ lastOp.fresh = Keys
    /\ \A k \in Keys : Truthy(state[k])
    /\ DOMAIN cache = {} /\ DOMAIN cacheExpiration = {}

(* C14: clearCache(key) removes the cache value and the cache timestamp of that
   key and of no other key, leaves the state, the handlers and the subscribers
   as they were, and notifies no subscriber. *)
C14_ClearKeyOnly ==
    [][\A k \in Keys :
        (Calls_("clearCache") /\ lastOp'.key = k)
        => /\ DOMAIN cache' = (DOMAIN cache) \ {k}
           /\ \A j \in DOMAIN cache' : cache'[j] = cache[j]
           /\ DOMAIN cacheExpiration' = (DOMAIN cacheExpiration) \ {k}
           /\ \A j \in DOMAIN cacheExpiration' :
                 cacheExpiration'[j] = cacheExpiration[j]
           /\ state' = state
           /\ apiHandlers' = apiHandlers
           /\ listeners' = listeners
           /\ notified' = <<>>]_vars

\* clearCache(key) has just removed a fresh entry and left the other key's entry
C14_Witness ==
    \E k \in Keys :
        /\ lastOp.name = "clearCache" /\ lastOp.key = k
        /\ lastOp.fresh = Keys
        /\ DOMAIN cache = Keys \ {k}
        /\ DOMAIN cacheExpiration = Keys \ {k}

(* C15: refreshData removes the key's cache entry and invokes the handler even
   when the entry was fresh; while no other operation has been called since, the
   key has no cache entry, also once refreshData has completed; and a GET that
   comes next invokes the handler again. *)
C15_RefreshRefetches ==
    [][\A c \in Calls :
        /\ (Calls_("refreshData") /\ StartsFetch(c) /\ MapHas(apiHandlers, HookKey))
            => /\ calls'[c].pc = "await"
               /\ calls'[c].invoked = 1
               /\ ~calls'[c].keepCache
        /\ (lastOp'.name = "refreshData" /\ calls'[c].id = ops')
            => /\ ~MapHas(cache', HookKey)
               /\ ~MapHas(cacheExpiration', HookKey)
        /\ (StartsFetch(c) /\ calls'[c].method = "GET"
                /\ lastOp.name = "refreshData" /\ MapHas(apiHandlers, HookKey))
            => /\ calls'[c].pc = "await"
               /\ calls'[c].invoked = 1]_vars

\* refreshData was called on a fresh entry: the entry is gone and the handler
\* has been invoked
C15_Witness ==
    \E c \in Calls :
        /\ lastOp.name = "refreshData"
        /\ HookKey \in lastOp.fresh
        /\ awaiting[c].fn = "refreshData"
        /\ calls[c].method = "GET"
        /\ calls[c].pc = "await"
        /\ calls[c].invoked = 1
        /\ ~MapHas(cache, HookKey)

\* the operation before this step registered a handler for key k, replacing one
AfterReRegister(k) ==
    lastOp.name = "registerAPI" /\ lastOp.key = k /\ lastOp.old >= 0

(* C16 as written: after a handler is registered again for a key that has a cache
   entry, a GET is served from the entry exactly when the entry is fresh under
   the lifetime of the registration that was replaced. *)
C16_JudgedByOldLifetime ==
    [][\A c \in Calls :
        LET f == calls'[c]
            k == f.key
        IN  (StartsFetch(c) /\ f.method = "GET" /\ AfterReRegister(k)
                /\ MapHas(cache, k) /\ MapHas(cacheExpiration, k))
            => (f.outcome = "hit" <=> clock - cacheExpiration[k] <= lastOp.old)]_vars

(* C16 amended: registering a handler again replaces the function and the
   lifetime and leaves the cache value and timestamp as they are; the existing
   entry is then judged under the lifetime of the new registration: a GET
   within it is served the old value, a GET beyond it invokes the new function. *)
C16_JudgedByNewLifetime ==
    [][/\ \A k \in Keys :
            (Calls_("registerAPI") /\ lastOp'.key = k)
            => /\ apiHandlers'[k] = lastOp'.handler
               /\ cache' = cache
               /\ cacheExpiration' = cacheExpiration
       /\ \A c \in Calls :
            LET f == calls'[c]
                k == f.key
            IN  (StartsFetch(c) /\ f.method = "GET" /\ AfterReRegister(k)
                    /\ MapHas(cache, k) /\ MapHas(cacheExpiration, k))
                => /\ (f.outcome = "hit"
                        <=> clock - cacheExpiration[k] <= lastOp.handler.cacheDuration)
                   /\ f.outcome = "hit" => f.ret = cache[k]
                   /\ f.outcome # "hit"
                        => /\ f.pc = "await"
                           /\ f.fetchFunction = lastOp.handler.fetchFunction]_vars

\* a key whose entry is older than the replaced lifetime and within the new one
\* has just been given another function
C16_Witness ==
    \E k \in Keys : \E c \in Calls :
        /\ AfterReRegister(k)
        /\ MapHas(cache, k) /\ MapHas(cacheExpiration, k)
        /\ clock - cacheExpiration[k] > lastOp.old
        /\ clock - cacheExpiration[k] <= apiHandlers[k].cacheDuration
        /\ calls[c].outcome = "stored" /\ calls[c].key = k
        /\ calls[c].ret = cache[k]
        /\ calls[c].fetchFunction # apiHandlers[k].fetchFunction

\* the id the latest operation was given names the record r
Targets(r) == ToString(r.id) = String(lastOp'.id)

(* C17: editItem on a key whose state is a sequence puts in its place the
   sequence of the same length in which each record with the target id (as a
   string) has the given fields over its own and every other record is the
   same, returns status true, and writes that sequence as the key's cache value
   without touching any cache timestamp; a GET that comes next within the
   freshness window (not the one refreshData makes after clearing the entry) is
   served the edited sequence without invoking the handler. *)
C17_EditItem ==
    [][/\ (Calls_("editItem") /\ IsArray(state[HookKey]))
            => LET old == state[HookKey].items
                   new == state'[HookKey].items
               IN  /\ IsArray(state'[HookKey])
                   /\ Len(new) = Len(old)
                   /\ \A i \in 1..Len(old) :
                        IF Targets(old[i])
                        THEN /\ DOMAIN new[i] = {"id", "name"}
                             /\ \A x \in DOMAIN lastOp'.fields :
                                   new[i][x] = lastOp'.fields[x]
                             /\ \A x \in {"id", "name"} \ DOMAIN lastOp'.fields :
                                   new[i][x] = old[i][x]
                        ELSE new[i] = old[i]
                   /\ lastOp'.ret.status = TRUE
                   /\ MapHas(cache', HookKey)
                   /\ cache'[HookKey] = state'[HookKey]
                   /\ cacheExpiration' = cacheExpiration
       /\ \A c \in Calls :
            (StartsFetch(c) /\ calls'[c].method = "GET"
                /\ lastOp'.name # "refreshData"
                /\ lastOp.name = "editItem" /\ lastOp.ret.status
                /\ MapHas(cacheExpiration, HookKey)
                /\ clock - cacheExpiration[HookKey] <= Lifetime(HookKey))
            => /\ calls'[c].outcome = "hit"
               /\ calls'[c].invoked = 0
               /\ calls'[c].ret = state[HookKey]]_vars

\* editItem, given the id as a string, has renamed the record with id 5 in the
\* state and in the cache entry a fetch had written
C17_Witness ==
    /\ lastOp.name = "editItem"
    /\ lastOp.id = Str("5")
    /\ lastOp.ret.status
    /\ state[HookKey] = Arr(<<Item(5, "X"), Item(7, "B")>>)
    /\ cache[HookKey] = state[HookKey]
    /\ MapHas(cacheExpiration, HookKey)
    /\ clock - cacheExpiration[HookKey] <= Lifetime(HookKey)

(* C18: editItem on a key whose state is absent, null or not a sequence returns
   a result with status false and with a message, and changes neither the state
   nor the cache nor the cache timestamps, and notifies no subscriber. *)
C18_EditFailureStructured ==
    [][(Calls_("editItem") /\ ~(Truthy(state[HookKey]) /\ IsArray(state[HookKey])))
        => /\ lastOp'.ret.status = FALSE
           /\ "message" \in DOMAIN lastOp'.ret
           /\ state' = state
           /\ cache' = cache
           /\ cacheExpiration' = cacheExpiration
           /\ notified' = <<>>]_vars

(* C19: deleteItem with a truthy id, on a key whose state is a sequence, puts in
   its place the records that do not have the target id (as a string), in their
   order, leaves the other keys as they are, starts and resumes no call of a
   handler, and broadcasts once, to each subscriber once. *)
C19_DeleteItem ==
    [][(Calls_("deleteItem") /\ ~Falsy(lastOp'.id) /\ IsArray(state[HookKey]))
        => /\ state'[HookKey]
                = Arr(SelectSeq(state[HookKey].items, LAMBDA r : ~Targets(r)))
           /\ \A k \in Keys \ {HookKey} : state'[k] = state[k]
           /\ calls' = calls
           /\ notified' = <<listeners>>
           /\ \A i, j \in 1..Len(listeners) :
                 listeners[i] = listeners[j] => i = j]_vars

\* deleteItem, given the id as a string, has removed the record with id 5 and
\* the hook's subscriber has been told
C19_Witness ==
    /\ lastOp.name = "deleteItem"
    /\ lastOp.id = Str("5")
    /\ state[HookKey] = ListB
    /\ Len(listeners) > 0
    /\ notified = <<listeners>>
    /\ hookState = ListB

(* C20: a cache value comes to exist for a key only in the step in which a fetch
   for that key with keepCache = true completes with data that it stores; no
   other step creates one. *)
C20_CacheOnlyFromFetch ==
    [][\A k \in Keys :
        (~MapHas(cache, k) /\ MapHas(cache', k))
        => \E c \in Calls :
              /\ Returned(c)
              /\ calls'[c].key = k
              /\ calls'[c].keepCache
              /\ calls'[c].outcome = "stored"]_vars

----------------------------------------------------------------------------
(* C21: setState(partial) gives every key of partial its new value and leaves
   every other key its value, leaves the cache, the cache timestamps, the
   handlers and the subscribers as they were, and broadcasts once to the
   subscribed callbacks, each of them once; the hook's callback, when it is
   among them, is handed the merged state. *)
C21_SetStateMerges ==
    [][Calls_("setState")
        => LET partial == lastOp'.partial
           IN  /\ \A k \in Keys :
                     state'[k] = IF k \in DOMAIN partial THEN partial[k] ELSE state[k]
               /\ cache' = cache
               /\ cacheExpiration' = cacheExpiration
               /\ apiHandlers' = apiHandlers
               /\ listeners' = listeners
               /\ notified' = <<listeners>>
               /\ \A i, j \in 1..Len(listeners) : listeners[i] = listeners[j] => i = j
               /\ HookSubscribed
                     => hookState' = Select(state'[HookKey], props.itemId)]_vars

\* setState has changed one key beside a fetched one, with two subscribers and
\* the hook's callback told, and the cache entry still there
C21_Witness ==
    /\ lastOp.name = "setState"
    /\ DOMAIN lastOp.partial = {"b"}
    /\ state["a"] = ListA /\ state["b"] = ListB
    /\ Len(listeners) = 3
    /\ notified = <<listeners>>
    /\ MapHas(cache, "a") /\ MapHas(cacheExpiration, "a")
    /\ hookState = ListA

----------------------------------------------------------------------------
(* The callbacks of a broadcast, as the claims speak of them *)

\* callback s is among the callbacks l
Among(l, s) == \E i \in 1..Len(l) : l[i] = s
\* this step broadcasts
Broadcasts == notified' # <<>>
\* this step hands callback s to the store
Subscribes(s) ==
    /\ ops' = ops + 1
    /\ lastOp'.name \in {"subscribe", "useStore"}
    /\ lastOp'.callback = s
\* this step calls an unsubscribe function of callback s
Unsubscribes(s) ==
    /\ ops' = ops + 1
    /\ lastOp'.name = "unsubscribe"
    /\ lastOp'.callback = s

(* C22 as written: in every broadcast a callback is invoked exactly when some
   subscribe call has handed it over whose unsubscribe function has not been
   called yet, and the callbacks are invoked in the order they are held. *)
C22_InvokedIffSubscriptionOpen ==
    [][Broadcasts
        => /\ \A s \in Callbacks : Among(notified'[1], s) <=> Unsubscribers(s) > 0
           /\ notified'[1] = listeners]_vars

(* C22 amended: the subscribers are a set of callbacks in insertion order.
   subscribe puts the callback at the end unless it is already held, calling
   any unsubscribe function of a callback removes it, however many times it was
   subscribed, and no other step changes the set; a held callback always has an
   unsubscribe function not yet called; every broadcast invokes, within the
   step, exactly the callbacks held, each once, in that order. *)
C22_SubscriberSet ==
    [][/\ \A s \in Callbacks :
            /\ Subscribes(s)
                => listeners' = IF Among(listeners, s)
                                THEN listeners
                                ELSE Append(listeners, s)
            /\ Unsubscribes(s)
                => listeners' = SelectSeq(listeners, LAMBDA x : x # s)
            /\ Among(listeners', s) => Unsubscribers(s)' > 0
       /\ (\A s \in Callbacks : ~Subscribes(s) /\ ~Unsubscribes(s))
            => listeners' = listeners
       /\ \A i, j \in 1..Len(listeners') : listeners'[i] = listeners'[j] => i = j
       /\ Broadcasts
            => \A i \in 1..Len(notified') : notified'[i] = listeners']_vars

\* a broadcast after a callback subscribed twice was unsubscribed once: it is
\* not invoked although one of its unsubscribe functions was never called, and
\* the callbacks subscribed after it are
C22_Witness ==
    /\ lastOp.name = "setState"
    /\ Unsubscribers("s1") = 1
    /\ ~Among(listeners, "s1")
    /\ Among(listeners, "s2")
    /\ notified = <<listeners>>

----------------------------------------------------------------------------
(* C23: whenever fetchData has invoked the handler, the argument of the
   invocation is the payload for POST, PUT and DELETE and the urlPath for GET,
   at the first attempt and at every retry. *)
C23_ArgByMethod ==
    [][\A c \in Calls :
        LET f == calls'[c]
        IN  (StepOf(c) /\ f.kind = "fetch" /\ f.invoked > 0)
            => f.arg = IF f.method \in WriteMethods THEN PAYLOAD ELSE URLPATH]_vars

----------------------------------------------------------------------------
(* C24: the store createStore(initialState) returns has initialState as its
   state and has no cache value, no cache timestamp, no handler and no
   subscriber. *)
C24_CreateStoreFresh ==
    [][Calls_("createStore")
        => /\ state' = lastOp'.partial
           /\ DOMAIN cache' = {}
           /\ DOMAIN cacheExpiration' = {}
           /\ DOMAIN apiHandlers' = {}
           /\ listeners' = <<>>]_vars

----------------------------------------------------------------------------
(* C25: in every state in which no fetch is in flight, the cached value of a
   key that has a cache value and a cache timestamp is the state's value at
   that key. *)
C25_CacheEqualsState ==
    (\A c \in Calls : ~InFlight(c))
    => \A k \in Keys :
          (MapHas(cache, k) /\ MapHas(cacheExpiration, k)) => cache[k] = state[k]

----------------------------------------------------------------------------
\* the operation before this step cleared the cache entry of key k
AfterClearOf(k) ==
    /\ lastOp.name \in {"clearCache", "refreshData"}
    /\ lastOp.key \in {k, ""}

(* C26: when a fetch that was in flight while clearCache(key) or refreshData
   cleared its key completes, it leaves no cache entry from which a GET issued
   then would be served. *)
C26_NoHitFromBeforeClear ==
    [][\A c \in Calls :
        LET k == calls[c].key
        IN  (Returned(c) /\ AfterClearOf(k) /\ calls[c].id < ops)
            => ~(/\ MapHas(cache', k)
                 /\ MapHas(cacheExpiration', k)
                 /\ cache'[k] = calls'[c].ret
                 /\ clock' - cacheExpiration'[k] <= Lifetime(k))]_vars

----------------------------------------------------------------------------
(* C27: in no step does the cache timestamp of a key that has one before and
   after the step (so that the step is no clear of the key) become smaller. *)
C27_TimestampMonotonic ==
    [][\A k \in Keys :
        (MapHas(cacheExpiration, k) /\ MapHas(cacheExpiration', k))
        => cacheExpiration'[k] >= cacheExpiration[k]]_vars

----------------------------------------------------------------------------
\* the fetch in slot c was started by a hook function and is in flight
HookFetchInFlight(c) == awaiting[c].fn # "none" /\ InFlight(c)

(* C28: in every state in which a fetch started by a hook function (the GET of
   the mount, executeMutation or refreshData) is in flight, isLoading is true. *)
C28_LoadingWhileInFlight ==
    (\E c \in Calls : HookFetchInFlight(c)) => isLoading = TRUE

----------------------------------------------------------------------------
(* C29: when every pending handler invocation is eventually settled and every
   backoff timer eventually fires, every fetchData call in flight is eventually
   resolved, having invoked the handler 3 times at most, and every hook
   function that has set isLoading to true eventually sets it to false. *)
C29_Terminates ==
    /\ \A c \in Calls :
          InFlight(c) ~> (calls[c].pc = "done" /\ calls[c].outcome # "threw")
    /\ [](\A c \in Calls :
            calls[c].kind = "fetch" => calls[c].invoked <= DefaultRetries)
    /\ \A c \in Calls :
          (awaiting[c].fn # "none") ~> (awaiting[c].fn = "none" /\ isLoading = FALSE)

\* a fetch the hook started has failed at each of its 3 invocations and has
\* resolved, and the hook function has set isLoading to false
C29_Witness ==
    \E c \in Calls :
        /\ lastOp.name \in {"fetchDataIfNeeded", "executeMutation"}
        /\ calls[c].pc = "done"
        /\ calls[c].outcome = "failed"
        /\ calls[c].invoked = DefaultRetries
        /\ Len(calls[c].waits) = 2
        /\ awaiting[c].fn = "none"
        /\ isLoading = FALSE

----------------------------------------------------------------------------
(* C30: in every state, every key that has a cache timestamp has a cache
   value. *)
C30_TimestampHasValue ==
    \A k \in Keys : MapHas(cacheExpiration, k) => MapHas(cache, k)

\* a fetch wrote value and timestamp together, a clear removed both, and
\* editItem then wrote a value that has no timestamp
C30_Witness ==
    /\ lastOp.name = "editItem"
    /\ MapHas(cache, HookKey)
    /\ ~MapHas(cacheExpiration, HookKey)
    /\ \E c \in Calls : calls[c].outcome = "stored" /\ calls[c].keepCache

----------------------------------------------------------------------------
(* C31: the step in which a fetchData call resolves to null or undefined
   changes neither the state nor the cache value nor the cache timestamp of any
   key, and no earlier step of the call does. *)
C31_NullLeavesNoTrace ==
    [][\A c \in Calls :
        LET f == calls'[c]
        IN  (StepOf(c) /\ f.kind = "fetch"
                /\ (f.pc = "done" => NullEquivalent(f.ret)))
            => /\ state' = state
               /\ cache' = cache
               /\ cacheExpiration' = cacheExpiration]_vars

====
